---- MODULE Spec2Model ----
(***************************************************************************)
(* PUFA Check (src/App.tsx, second listing, lines 521-1217): the history   *)
(* store hook useHistory, the OpenFoodFacts enrichment, the response       *)
(* parsers, the PUFA classifier and the scan handler, as a state machine.  *)
(*                                                                         *)
(* React state is modelled by two copies: the state cell itself (history,  *)
(* result, scanned) and the value the last render captured in the          *)
(* callbacks it created (rHistory, rResult, rScanned).  A callback works   *)
(* on what its render captured, an async handler keeps the callbacks of    *)
(* the render that created it for its whole run.                           *)
(***************************************************************************)
EXTENDS Integers, Sequences, FiniteSets, TLC

(***************************************************************************)
(* JavaScript values.  A value carries its runtime type; objects are       *)
(* functions from keys to values, so that a key present with the value     *)
(* undefined differs from an absent key (Object.keys counts the first).    *)
(***************************************************************************)
EmptyObj == [k \in {} |-> 0]

U == [type |-> "undefined", num |-> 0, str |-> "", obj |-> EmptyObj]

Null == [type |-> "null", num |-> 0, str |-> "", obj |-> EmptyObj]

Num(n) == [type |-> "number", num |-> n, str |-> "", obj |-> EmptyObj]

Str(s) == [type |-> "string", num |-> 0, str |-> s, obj |-> EmptyObj]

Bool(b) == [type |-> "boolean", num |-> IF b THEN 1 ELSE 0, str |-> "", obj |-> EmptyObj]

Obj(o) == [type |-> "object", num |-> 0, str |-> "", obj |-> o]

\* ToBoolean: undefined, null, 0, "" and false are falsy.
Truthy(v) ==
  CASE v.type = "undefined" -> FALSE
    [] v.type = "null" -> FALSE
    [] v.type = "number" -> v.num # 0
    [] v.type = "string" -> v.str # ""
    [] v.type = "boolean" -> v.num = 1
    [] OTHER -> TRUE

\* a || b
OrElse(a, b) == IF Truthy(a) THEN a ELSE b

\* v?.[k]
Get(v, k) == IF v.type = "object" /\ k \in DOMAIN v.obj THEN v.obj[k] ELSE U

\* An absent array / a present array (matchedSeedOils?: string[]).
NoArray == <<>>

Array(s) == <<s>>

(***************************************************************************)
(* Strings: String.prototype.toLowerCase and String.prototype.includes,    *)
(* character by character.                                                 *)
(***************************************************************************)
UpperToLower ==
  [c \in {"A","B","C","D","E","F","G","H","I","J","K","L","M","N","O","P","Q",
          "R","S","T","U","V","W","X","Y","Z"} |->
     CASE c = "A" -> "a" [] c = "B" -> "b" [] c = "C" -> "c" [] c = "D" -> "d"
       [] c = "E" -> "e" [] c = "F" -> "f" [] c = "G" -> "g" [] c = "H" -> "h"
       [] c = "I" -> "i" [] c = "J" -> "j" [] c = "K" -> "k" [] c = "L" -> "l"
       [] c = "M" -> "m" [] c = "N" -> "n" [] c = "O" -> "o" [] c = "P" -> "p"
       [] c = "Q" -> "q" [] c = "R" -> "r" [] c = "S" -> "s" [] c = "T" -> "t"
       [] c = "U" -> "u" [] c = "V" -> "v" [] c = "W" -> "w" [] c = "X" -> "x"
       [] c = "Y" -> "y" [] OTHER -> "z"]

RECURSIVE toLowerCase(_)
toLowerCase(s) ==
  IF Len(s) = 0 THEN ""
  ELSE LET c == SubSeq(s, 1, 1)
       IN (IF c \in DOMAIN UpperToLower THEN UpperToLower[c] ELSE c)
            \o toLowerCase(SubSeq(s, 2, Len(s)))

includes(s, k) ==
  \E i \in 1..(Len(s) - Len(k) + 1) : SubSeq(s, i, i + Len(k) - 1) = k

\* seedOilKeywords.filter((k) => normalized.includes(k)): the keywords that
\* occur in the text, in the order of the keyword list.
\* mutant of filterIncluded: find instead of filter, the first keyword only
filterIncluded_first(keys, normalized) ==
  IF \E i \in 1..Len(keys) : includes(normalized, keys[i])
  THEN <<keys[CHOOSE i \in 1..Len(keys) :
                /\ includes(normalized, keys[i])
                /\ \A j \in 1..(i - 1) : ~includes(normalized, keys[j])]>>
  ELSE <<>>

RECURSIVE filterIncluded(_, _)
filterIncluded(keys, normalized) ==
  IF keys = <<>> THEN <<>>
  ELSE (IF includes(normalized, Head(keys)) THEN <<Head(keys)>> ELSE <<>>)
         \o filterIncluded(Tail(keys), normalized)

(***************************************************************************)
(* analyzePufa (src/App.tsx:788-806).  A thrown TypeError (toLowerCase of  *)
(* a truthy value that is not a string) is the result Threw.               *)
(***************************************************************************)
seedOilKeywords ==
  << "canola oil", "rapeseed oil", "soybean oil", "soy oil", "corn oil",
     "sunflower oil", "safflower oil", "cottonseed oil", "grapeseed oil",
     "rice bran oil", "vegetable oil", "mixed vegetable oils" >>

lowKeywords == << "olive oil", "butter", "avocado oil" >>

Threw == [threw |-> TRUE, flag |-> "", matchedSeedOils |-> <<>>]

highThreshold == 10

mediumThreshold == 4

\* mutant of pufaFlagFor: the medium boundary is exclusive
pufaFlagFor_exclusive(polyFatPer100g, matchedSeedOils, normalized) ==
  IF polyFatPer100g.type = "number"
  THEN IF polyFatPer100g.num >= highThreshold THEN "high"
       ELSE IF polyFatPer100g.num > mediumThreshold THEN "medium"
       ELSE IF Len(matchedSeedOils) > 0 THEN "high" ELSE "low"
  ELSE IF Len(matchedSeedOils) > 0 THEN "high"
  ELSE IF \E i \in 1..Len(lowKeywords) : includes(normalized, lowKeywords[i])
       THEN "low"
  ELSE "unknown"

pufaFlagFor(polyFatPer100g, matchedSeedOils, normalized) ==
  IF polyFatPer100g.type = "number"
  THEN IF polyFatPer100g.num >= highThreshold THEN "high"
       ELSE IF polyFatPer100g.num >= mediumThreshold THEN "medium"
       ELSE IF Len(matchedSeedOils) > 0 THEN "high" ELSE "low"
  ELSE IF Len(matchedSeedOils) > 0 THEN "high"
  ELSE IF \E i \in 1..Len(lowKeywords) : includes(normalized, lowKeywords[i])
       THEN "low"
  ELSE "unknown"

analyzePufa(ingredientsText, polyFatPer100g) ==
  LET t == OrElse(ingredientsText, Str(""))
  IN IF t.type # "string" THEN Threw
     ELSE LET normalized == toLowerCase(t.str)
              matchedSeedOils == filterIncluded(seedOilKeywords, normalized)
          IN [threw |-> FALSE,
              flag |-> pufaFlagFor(polyFatPer100g, matchedSeedOils, normalized),
              matchedSeedOils |-> matchedSeedOils]

(***************************************************************************)
(* mapBasicNutriments (src/App.tsx:757-786).  The returned object literal  *)
(* always has its twelve keys; a nutrient that is not in the response is a *)
(* key whose value is undefined.                                           *)
(***************************************************************************)
kjPerKcalMilli == 4184

\* kj / 4.184, on the integers: exact for the multiples of 523 kJ.
kjToKcal(kj) == (kj * 1000) \div kjPerKcalMilli

pick(off, key) ==
  LET v100 == Get(off, key \o "_100g")
      vunit == Get(off, key \o "_unit")
      value == IF v100.type = "number" THEN v100 ELSE U
      unit == IF vunit.type = "string" THEN vunit ELSE U
  IN IF value = U /\ unit = U THEN U
     ELSE Obj([value |-> value, unit |-> unit])

energyKcalOf(off) ==
  LET k == Get(off, "energy-kcal_100g")
      j == Get(off, "energy-kj_100g")
      kcal == IF k.type = "number" THEN k ELSE U
      kj == IF j.type = "number" THEN j ELSE U
      value == IF kcal # U THEN kcal
               ELSE IF kj # U THEN Num(kjToKcal(kj.num)) ELSE U
  IN IF value = U THEN U ELSE Obj([value |-> value, unit |-> Str("kcal")])

mapBasicNutriments(off) ==
  IF ~Truthy(off) THEN U
  ELSE Obj([energyKcal |-> energyKcalOf(off),
            fat |-> pick(off, "fat"),
            saturatedFat |-> pick(off, "saturated-fat"),
            monounsaturatedFat |-> pick(off, "monounsaturated-fat"),
            polyunsaturatedFat |-> pick(off, "polyunsaturated-fat"),
            transFat |-> pick(off, "trans-fat"),
            carbohydrates |-> pick(off, "carbohydrates"),
            sugars |-> pick(off, "sugars"),
            fiber |-> pick(off, "fiber"),
            proteins |-> pick(off, "proteins"),
            salt |-> pick(off, "salt"),
            sodium |-> pick(off, "sodium")])

(***************************************************************************)
(* parseOffV2 (src/App.tsx:730-742) and parseOffV0 (744-755): the parsed   *)
(* product, or undefined.                                                  *)
(***************************************************************************)
\* Object.keys(nutriments).length > 0
hasKeys(v) == v.type = "object" /\ Cardinality(DOMAIN v.obj) > 0

parseProduct(product) ==
  LET name == Get(product, "product_name")
      ingredientsText == OrElse(Get(product, "ingredients_text_en"),
                                Get(product, "ingredients_text"))
      nutriments == mapBasicNutriments(Get(product, "nutriments"))
      polyFatPer100g == Get(Get(product, "nutriments"), "polyunsaturated-fat_100g")
      hasData == \/ Truthy(name)
                 \/ Truthy(ingredientsText)
                 \/ (Truthy(nutriments) /\ hasKeys(nutriments))
  IN IF ~hasData THEN U
     ELSE Obj([name |-> name, ingredientsText |-> ingredientsText,
               polyFatPer100g |-> polyFatPer100g, nutriments |-> nutriments])

\* mutant of parseOffV2: the status test of parseOffV0
parseOffV2_strict(json) ==
  LET status == Get(json, "status")
      product == Get(json, "product")
  IN IF ~Truthy(product) \/ status # Num(1) THEN U
     ELSE parseProduct(product)

parseOffV2(json) ==
  LET status == Get(json, "status")
      product == Get(json, "product")
  IN IF status = Num(0) THEN U
     ELSE IF ~Truthy(product) THEN U
     ELSE parseProduct(product)

parseOffV0(json) ==
  LET status == Get(json, "status")
      product == Get(json, "product")
  IN IF ~Truthy(product) \/ status # Num(1) THEN U
     ELSE parseProduct(product)

(***************************************************************************)
(* The endpoint list of enrichItemWithOpenFoodFacts (src/App.tsx:664-669). *)
(***************************************************************************)
endpoints ==
  << [host |-> "world", parser |-> "parseOffV2", source |-> "OFF v2 world"],
     [host |-> "us", parser |-> "parseOffV2", source |-> "OFF v2 us"],
     [host |-> "world", parser |-> "parseOffV0", source |-> "OFF v0 world"],
     [host |-> "us", parser |-> "parseOffV0", source |-> "OFF v0 us"] >>

\* ep.parser(json)
parse(ep, json) ==
  IF ep.parser = "parseOffV2" THEN parseOffV2(json) ELSE parseOffV0(json)

(***************************************************************************)
(* HistoryItem (src/App.tsx:555-596).  An optional field that is absent    *)
(* reads as undefined, so it holds U.                                      *)
(***************************************************************************)
newItem(id, data, scannedAt) ==
  [id |-> id, name |-> U, barcodeData |-> data, scannedAt |-> scannedAt,
   isFavorite |-> U, pufaFlag |-> "unknown", ingredients |-> U,
   polyunsaturatedFatPer100g |-> U, matchedSeedOils |-> NoArray,
   nutriments |-> U, lookupStatus |-> "pending", lookupSource |-> U]

BlankItem == newItem("", U, 0)

(***************************************************************************)
(* useHistory (src/App.tsx:602-651): what add, toggleFavorite, remove and  *)
(* update compute from the history their closure captured.                 *)
(***************************************************************************)
HistoryCap == 200

slice(seq, n) == SubSeq(seq, 1, IF Len(seq) < n THEN Len(seq) ELSE n)

\* { ...h, ...changes }
merge(h, changes) ==
  [f \in DOMAIN h |-> IF f \in DOMAIN changes THEN changes[f] ELSE h[f]]

\* items.find(h => h.id === id)
find(items, id) ==
  IF \E i \in 1..Len(items) : items[i].id = id
  THEN Obj(items[CHOOSE i \in 1..Len(items) :
                   /\ items[i].id = id
                   /\ \A j \in 1..(i - 1) : items[j].id # id])
  ELSE U

addItems(history_, item) == slice(<<item>> \o history_, HistoryCap)

toggleItems(history_, id) ==
  [i \in 1..Len(history_) |->
     IF history_[i].id = id
     THEN merge(history_[i], [isFavorite |-> Bool(~Truthy(history_[i].isFavorite))])
     ELSE history_[i]]

\* history.filter(h => h.id !== id)
removeItems(history_, id) ==
  LET keep(h) == h.id # id
  IN SelectSeq(history_, keep)

updateItems(history_, id, changes) ==
  [i \in 1..Len(history_) |->
     IF history_[i].id = id THEN merge(history_[i], changes) ELSE history_[i]]

(***************************************************************************)
(* JSON.stringify followed by JSON.parse: a key whose value is undefined   *)
(* is not written, so it is absent after the round trip.                   *)
(***************************************************************************)
RECURSIVE jsonValue(_)
jsonValue(v) ==
  IF v.type # "object" THEN v
  ELSE LET keep == {k \in DOMAIN v.obj : v.obj[k] # U}
       IN Obj([k \in keep |-> jsonValue(v.obj[k])])

jsonItem(h) == [h EXCEPT !.nutriments = jsonValue(@)]

stringify(items) == [i \in 1..Len(items) |-> jsonItem(items[i])]

(***************************************************************************)
(* Bounds and inputs.                                                      *)
(***************************************************************************)
MaxScans == 2

MaxNow == 2

MaxTaps == 3

MaxToggles == 1

MaxWriteFails == 1

MaxStoreOps == 3

ScanIds == 1..MaxScans

Barcodes == {"0000000000017", "737628064502", ""}

nutrimentsOf(poly) == Obj([k \in {"polyunsaturated-fat_100g"} |-> poly])

TestOilBody ==
  Obj([status |-> Num(1),
       product |-> Obj([product_name |-> Str("Test Oil"),
                        ingredients_text |-> Str("contains soybean oil"),
                        nutriments |-> nutrimentsOf(Num(12))])])

NotFoundBody ==
  Obj([status |-> Num(0), status_verbose |-> Str("product not found")])

OliveBody ==
  Obj([product |-> Obj([product_name |-> Str("Olive Spread"),
                        ingredients_text_en |-> Str("Olive Oil, Butter")])])

OddIngredientsBody ==
  Obj([status |-> Num(1),
       product |-> Obj([product_name |-> Str("Odd"),
                        ingredients_text |-> Num(5)])])

Bodies == {TestOilBody, NotFoundBody, OliveBody, OddIngredientsBody}

\* What one fetchJsonWithTimeout call can come to: the abort at the timeout,
\* a transport failure, a body that res.json() rejects, or a JSON value.
Failed(k) == [kind |-> k, json |-> U]

Answer(b) == [kind |-> "json", json |-> b]

Outcomes ==
  {Failed(k) : k \in {"timeout", "neterror", "badjson"}}
    \cup {Answer(b) : b \in Bodies}

(***************************************************************************)
(* State.                                                                  *)
(***************************************************************************)
VARIABLES
  history,     \* useHistory: the history state cell
  rHistory,    \* the history captured by the callbacks of the last render
  loading,     \* useHistory: the loading state cell
  result,      \* App: the result state cell (Null or Obj(item))
  rResult,     \* the result captured by the last render
  stack,       \* App: the stack state cell
  rStack,      \* the screen the last render shows
  scanned,     \* ScanScreen: the scanned state cell
  rScanned,    \* the scanned value captured by onBarcodeScanned
  storage,     \* AsyncStorage: the value under @pufa_history
  loadPc,      \* load: "resolve" (getItem has settled, load not resumed), "idle"
  loadRaw,     \* load: what getItem came to
  procs,       \* the onScanned runs
  call,        \* the last direct call: function, arguments, result, ...
  tapsLeft,    \* navigation taps the user still makes
  togglesLeft, \* favorite taps the user still makes
  failsLeft,   \* setItem calls the device still rejects
  opsLeft,     \* calls a client of the hook still makes
  now          \* Date.now()

vars ==
  <<history, rHistory, loading, result, rResult, stack, rStack, scanned,
    rScanned, storage, loadPc, loadRaw, procs, call, tapsLeft,
    togglesLeft, failsLeft, opsLeft, now>>

renderVars == <<rHistory, rResult, rStack, rScanned>>

loadVars == <<loading, loadPc, loadRaw>>

userVars == <<tapsLeft, togglesLeft, opsLeft, call>>

NoStorage == [kind |-> "null", items |-> <<>>]

Stored(items) == [kind |-> "json", items |-> items]

Rejected == [kind |-> "rejected", items |-> <<>>]

NoCall ==
  [fn |-> "none", args |-> <<>>, done |-> TRUE, out |-> U, before |-> <<>>,
   settled |-> "resolved"]

idleProc ==
  [pc |-> "idle", item |-> BlankItem, cHistory |-> <<>>, cResult |-> Null,
   ep |-> 0, productData |-> U, sourceUsed |-> U, ret |-> U,
   requests |-> <<>>, statusWrites |-> <<>>]

(***************************************************************************)
(* What the device can hold under @pufa_history when the app starts: no    *)
(* value (first launch), or the history an earlier run has written.        *)
(***************************************************************************)
PriorItem ==
  merge(newItem("737628064502", Str("737628064502"), 0),
        [name |-> Str("Olive Spread"), ingredients |-> Str("Olive Oil, Butter"),
         pufaFlag |-> "low", matchedSeedOils |-> Array(<<>>),
         lookupStatus |-> "found", lookupSource |-> Str("OFF v2 world")])

InitialStorages == {NoStorage, Stored(<<PriorItem>>)}

(***************************************************************************)
(* persist (src/App.tsx:618-625): setHistory, then setItem, whose          *)
(* rejection is caught and logged.  AsyncStorage serves its calls in call  *)
(* order and the JS thread sees a call's effect only when the awaiting     *)
(* caller resumes, so the write is placed at the call; the caller's        *)
(* continuation is a later step.                                           *)
(***************************************************************************)
persist(items) ==
  /\ history' = items
  /\ \/ /\ storage' = Stored(stringify(items))
        /\ failsLeft' = failsLeft
     \/ /\ failsLeft > 0
        /\ storage' = storage
        /\ failsLeft' = failsLeft - 1

\* AsyncStorage.getItem: the stored value, or a rejection
getItem == {storage, Rejected}

\* The state after construction: the first render is done and the mount
\* effect (src/App.tsx:648) has called load, whose getItem has settled.
Mounted(storages) ==
  /\ history = <<>>
  /\ rHistory = <<>>
  /\ loading = TRUE
  /\ result = Null
  /\ rResult = Null
  /\ stack = "Root"
  /\ rStack = "Root"
  /\ scanned = FALSE
  /\ rScanned = FALSE
  /\ storage \in storages
  /\ loadPc = "resolve"
  /\ loadRaw \in getItem
  /\ procs = [p \in ScanIds |-> idleProc]

Init ==
  /\ Mounted(InitialStorages)
  /\ call = NoCall
  /\ now = 1
  /\ tapsLeft = MaxTaps
  /\ togglesLeft = MaxToggles
  /\ failsLeft = MaxWriteFails
  /\ opsLeft = 0

(***************************************************************************)
(* load (src/App.tsx:606-616), from the point where getItem has settled:   *)
(* setHistory(JSON.parse(raw)) when raw is a string that parses; a         *)
(* rejection or a parse error is caught; setLoading(false) in any case.    *)
(***************************************************************************)
LoadFinish ==
  /\ loadPc = "resolve"
  /\ history' = IF loadRaw.kind = "json" THEN loadRaw.items ELSE history
  /\ loading' = FALSE
  /\ loadPc' = "idle"
  /\ loadRaw' = NoStorage
  /\ UNCHANGED <<renderVars, result, stack, scanned, storage, procs, userVars,
                 failsLeft, now>>

(***************************************************************************)
(* A render of App and its children: the callbacks are created anew over   *)
(* the current state; ScanScreen, when not shown, is unmounted and loses   *)
(* its scanned state.                                                      *)
(***************************************************************************)
Render ==
  /\ \/ rHistory # history
     \/ rResult # result
     \/ rStack # stack
     \/ rScanned # scanned
  /\ rHistory' = history
  /\ rResult' = result
  /\ rStack' = stack
  /\ IF stack = "Scan"
     THEN /\ rScanned' = scanned
          /\ scanned' = scanned
     ELSE /\ rScanned' = FALSE
          /\ scanned' = FALSE
  /\ UNCHANGED <<history, storage, failsLeft, loadVars, result, stack, procs,
                 userVars, now>>

\* one navigation tap
tap ==
  /\ tapsLeft > 0
  /\ tapsLeft' = tapsLeft - 1
  /\ UNCHANGED <<togglesLeft, opsLeft, call>>

\* goScan (src/App.tsx:814-817)
GoScan ==
  /\ rStack = "Root"
  /\ stack' = "Scan"
  /\ tap
  /\ UNCHANGED <<history, storage, failsLeft, loadVars, renderVars, result,
                 scanned, procs, now>>

\* back (src/App.tsx:824-827)
Back ==
  /\ rStack # "Root"
  /\ stack' = "Root"
  /\ tap
  /\ UNCHANGED <<history, storage, failsLeft, loadVars, renderVars, result,
                 scanned, procs, now>>

\* goResult (src/App.tsx:819-822) from a row of the Home or History screen
OpenResult ==
  /\ rStack = "Root"
  /\ \E i \in 1..Len(rHistory) :
       /\ result' = Obj(rHistory[i])
       /\ stack' = "Result"
  /\ tap
  /\ UNCHANGED <<history, storage, failsLeft, loadVars, renderVars, scanned,
                 procs, now>>

\* toggleFavorite (src/App.tsx:632-635) from a History row or the Result screen
ToggleFavorite ==
  /\ togglesLeft > 0
  /\ togglesLeft' = togglesLeft - 1
  /\ \E id \in {rHistory[i].id : i \in 1..Len(rHistory)}
              \cup (IF rResult # Null THEN {rResult.obj.id} ELSE {}) :
       /\ \/ rStack = "Root" /\ \E i \in 1..Len(rHistory) : rHistory[i].id = id
          \/ rStack = "Result" /\ rResult # Null /\ rResult.obj.id = id
       /\ persist(toggleItems(rHistory, id))
  /\ UNCHANGED <<loadVars, renderVars, result, stack, scanned, procs, tapsLeft,
                 opsLeft, call, now>>

(***************************************************************************)
(* ScanScreen.onBarcodeScanned (src/App.tsx:993-997) and the start of      *)
(* onScanned (860-869): the item is built and add is called.  The handler  *)
(* keeps add, update and result of the render that created it.             *)
(***************************************************************************)
Scan(p, data) ==
  /\ rStack = "Scan"
  /\ ~rScanned
  /\ procs[p].pc = "idle"
  /\ \A q \in ScanIds : q < p => procs[q].pc # "idle"
  /\ scanned' = TRUE
  /\ \E t1 \in now..MaxNow : \E t2 \in t1..MaxNow :
       LET item == newItem(IF data # "" THEN data ELSE ToString(t1),
                           Str(data), t2)
       IN /\ now' = t2
          /\ persist(addItems(rHistory, item))
          /\ procs' = [procs EXCEPT ![p] =
                         [@ EXCEPT !.pc = "add", !.item = item,
                                   !.cHistory = rHistory, !.cResult = rResult]]
  /\ UNCHANGED <<loadVars, renderVars, result, stack, userVars>>

(***************************************************************************)
(* enrichItemWithOpenFoodFacts (src/App.tsx:659-728) and the end of        *)
(* onScanned (870-871).                                                    *)
(***************************************************************************)
\* await update(item.id, changes) (src/App.tsx:642-646) over the history the
\* handler's closure captured; the handler resumes at pc
updateCall(p, changes, pc) ==
  LET items == updateItems(procs[p].cHistory, procs[p].item.id, changes)
  IN /\ persist(items)
     /\ procs' = [procs EXCEPT ![p] =
                    [@ EXCEPT !.pc = pc,
                              !.ret = find(items, procs[p].item.id),
                              !.statusWrites = Append(@, changes.lookupStatus)]]

\* if (x && result && result.id === item.id) setResult(x); return x  (699-700,
\* 720-721, 725-726), then goResult(enriched || item) (871, 819-822)
returnAndGoResult(p, enriched) ==
  LET cResult == procs[p].cResult
      afterSetResult ==
        IF Truthy(enriched) /\ Truthy(cResult)
             /\ cResult.obj.id = procs[p].item.id
        THEN enriched ELSE result
      shown == OrElse(enriched, Obj(procs[p].item))
  IN /\ result' = IF afterSetResult = shown THEN afterSetResult ELSE shown
     /\ stack' = "Result"
     /\ procs' = [procs EXCEPT ![p] =
                    [@ EXCEPT !.pc = "done", !.cHistory = <<>>,
                              !.cResult = Null]]

\* mutant of EnrichSkip: the pending status is written before the guard
EnrichSkip_writes(p) ==
  /\ procs[p].pc = "add"
  /\ ~Truthy(procs[p].item.barcodeData)
  /\ persist(updateItems(procs[p].cHistory, procs[p].item.id,
                         [lookupStatus |-> "pending"]))
  /\ returnAndGoResult(p, U)
  /\ UNCHANGED <<loadVars, renderVars, scanned, userVars, now>>

\* the barcode guard (660): no barcode, nothing is looked up
EnrichSkip(p) ==
  /\ procs[p].pc = "add"
  /\ ~Truthy(procs[p].item.barcodeData)
  /\ returnAndGoResult(p, U)
  /\ UNCHANGED <<history, storage, failsLeft, loadVars, renderVars, scanned,
                 userVars, now>>

\* update(item.id, { lookupStatus: 'pending' }) (662)
EnrichStart(p) ==
  /\ procs[p].pc = "add"
  /\ Truthy(procs[p].item.barcodeData)
  /\ updateCall(p, [lookupStatus |-> "pending"], "pending")
  /\ UNCHANGED <<loadVars, renderVars, result, stack, scanned, userVars, now>>

\* the first pass of the endpoint loop: the request to endpoints[1] (685-687)
FirstRequest(p) ==
  /\ procs[p].pc = "pending"
  /\ procs' = [procs EXCEPT ![p] =
                 [@ EXCEPT !.pc = "fetch", !.ep = 1,
                           !.requests = <<endpoints[1].source>>]]
  /\ UNCHANGED <<history, storage, failsLeft, loadVars, renderVars, result,
                 stack, scanned, userVars, now>>

\* ep.parser(json) of the answer, undefined when the fetch or res.json() threw
parsedOf(ep, out) ==
  IF out.kind = "json" THEN parse(endpoints[ep], out.json) ELSE U

\* the changes of the found branch (709-718)
foundChanges(item, productData, sourceUsed, analysis) ==
  LET polyFat == Get(productData, "polyFatPer100g")
  IN [name |-> OrElse(Get(productData, "name"), item.name),
      ingredients |-> OrElse(Get(productData, "ingredientsText"), item.ingredients),
      polyunsaturatedFatPer100g |->
        IF polyFat.type = "number" THEN polyFat
        ELSE item.polyunsaturatedFatPer100g,
      pufaFlag |-> analysis.flag,
      matchedSeedOils |-> Array(analysis.matchedSeedOils),
      lookupStatus |-> "found",
      lookupSource |-> sourceUsed,
      nutriments |-> OrElse(Get(productData, "nutriments"), item.nutriments)]

\* analyzePufa(ingredientsText, polyFat) (703-707)
analysisOf(productData) ==
  analyzePufa(Get(productData, "ingredientsText"), Get(productData, "polyFatPer100g"))

\* mutant of sourceOf: the source of the first endpoint of the list
sourceOf_first(ep) == Str(endpoints[1].source)

\* sourceUsed = ep.source (691)
sourceOf(ep) == Str(endpoints[ep].source)

\* the answer parses to a product: break, classify, update (689-719)
ResponseFound(p, out) ==
  /\ procs[p].pc = "fetch"
  /\ Truthy(parsedOf(procs[p].ep, out))
  /\ ~analysisOf(parsedOf(procs[p].ep, out)).threw
  /\ LET productData == parsedOf(procs[p].ep, out)
         sourceUsed == sourceOf(procs[p].ep)
         items == updateItems(procs[p].cHistory, procs[p].item.id,
                    foundChanges(procs[p].item, productData, sourceUsed,
                                 analysisOf(productData)))
     IN /\ persist(items)
        /\ procs' = [procs EXCEPT ![p] =
                       [@ EXCEPT !.pc = "final",
                                 !.productData = productData,
                                 !.sourceUsed = sourceUsed,
                                 !.ret = find(items, procs[p].item.id),
                                 !.statusWrites = Append(@, "found")]]
  /\ UNCHANGED <<loadVars, renderVars, result, stack, scanned, userVars, now>>

\* analyzePufa throws: the outer catch writes error (722-724)
ResponseThrows(p, out) ==
  /\ procs[p].pc = "fetch"
  /\ Truthy(parsedOf(procs[p].ep, out))
  /\ analysisOf(parsedOf(procs[p].ep, out)).threw
  /\ LET items == updateItems(procs[p].cHistory, procs[p].item.id,
                              [lookupStatus |-> "error"])
     IN /\ persist(items)
        /\ procs' = [procs EXCEPT ![p] =
                       [@ EXCEPT !.pc = "final",
                                 !.productData = parsedOf(procs[p].ep, out),
                                 !.sourceUsed = sourceOf(procs[p].ep),
                                 !.ret = find(items, procs[p].item.id),
                                 !.statusWrites = Append(@, "error")]]
  /\ UNCHANGED <<loadVars, renderVars, result, stack, scanned, userVars, now>>

\* mutant of ResponseNext: the loop requests the same endpoint again
ResponseNext_retry(p, out) ==
  /\ procs[p].pc = "fetch"
  /\ ~Truthy(parsedOf(procs[p].ep, out))
  /\ procs[p].ep < Len(endpoints)
  /\ Len(procs[p].requests) < Len(endpoints)
  /\ procs' = [procs EXCEPT ![p] =
                 [@ EXCEPT !.requests = Append(@, endpoints[procs[p].ep].source)]]
  /\ UNCHANGED <<history, storage, failsLeft, loadVars, renderVars, result,
                 stack, scanned, userVars, now>>

\* no product from this endpoint: the loop requests the next one (685-695)
ResponseNext(p, out) ==
  /\ procs[p].pc = "fetch"
  /\ ~Truthy(parsedOf(procs[p].ep, out))
  /\ procs[p].ep < Len(endpoints)
  /\ procs' = [procs EXCEPT ![p] =
                 [@ EXCEPT !.ep = @ + 1,
                           !.requests = Append(@, endpoints[procs[p].ep + 1].source)]]
  /\ UNCHANGED <<history, storage, failsLeft, loadVars, renderVars, result,
                 stack, scanned, userVars, now>>

\* mutant of ResponseExhausted: not_found is written and the loop goes on
ResponseExhausted_noReturn(p, out) ==
  /\ procs[p].pc = "fetch"
  /\ ~Truthy(parsedOf(procs[p].ep, out))
  /\ procs[p].ep = Len(endpoints)
  /\ updateCall(p, [lookupStatus |-> "not_found"], "fetch")
  /\ UNCHANGED <<loadVars, renderVars, result, stack, scanned, userVars, now>>

\* no product from the last endpoint: update not_found (697-698)
ResponseExhausted(p, out) ==
  /\ procs[p].pc = "fetch"
  /\ ~Truthy(parsedOf(procs[p].ep, out))
  /\ procs[p].ep = Len(endpoints)
  /\ updateCall(p, [lookupStatus |-> "not_found"], "final")
  /\ UNCHANGED <<loadVars, renderVars, result, stack, scanned, userVars, now>>

\* the last update has been persisted: the handler returns and shows the result
Finish(p) ==
  /\ procs[p].pc = "final"
  /\ returnAndGoResult(p, procs[p].ret)
  /\ UNCHANGED <<history, storage, failsLeft, loadVars, renderVars, scanned,
                 userVars, now>>

(***************************************************************************)
(* Spec: the app with one scan handled.                                    *)
(***************************************************************************)
Next ==
  \/ LoadFinish
  \/ Render
  \/ GoScan
  \/ Back
  \/ OpenResult
  \/ ToggleFavorite
  \/ \E data \in Barcodes : Scan(1, data)
  \/ EnrichSkip(1)
  \/ EnrichStart(1)
  \/ FirstRequest(1)
  \/ \E out \in Outcomes : ResponseFound(1, out)
  \/ \E out \in Outcomes : ResponseThrows(1, out)
  \/ \E out \in Outcomes : ResponseNext(1, out)
  \/ \E out \in Outcomes : ResponseExhausted(1, out)
  \/ Finish(1)

Spec == Init /\ [][Next]_vars

(***************************************************************************)
(* SpecRace: the app with MaxScans scans, which can be in flight together, *)
(* on a first launch; the storage accepts every write, the remote answers  *)
(* with a timeout or with the Test Oil product, and the scans fall into    *)
(* the last millisecond the clock counts.                                  *)
(***************************************************************************)
RaceBarcodes == {"0000000000017", "737628064502"}

RaceOutcomes == {Failed("timeout"), Answer(TestOilBody)}

InitRace ==
  /\ Mounted({NoStorage})
  /\ call = NoCall
  /\ now = MaxNow
  /\ tapsLeft = MaxTaps
  /\ togglesLeft = 0
  /\ failsLeft = 0
  /\ opsLeft = 0

NextRace ==
  \/ LoadFinish
  \/ Render
  \/ GoScan
  \/ Back
  \/ OpenResult
  \/ \E p \in ScanIds, data \in RaceBarcodes : Scan(p, data)
  \/ \E p \in ScanIds : EnrichStart(p)
  \/ \E p \in ScanIds : FirstRequest(p)
  \/ \E p \in ScanIds, out \in RaceOutcomes : ResponseFound(p, out)
  \/ \E p \in ScanIds, out \in RaceOutcomes : ResponseNext(p, out)
  \/ \E p \in ScanIds, out \in RaceOutcomes : ResponseExhausted(p, out)
  \/ \E p \in ScanIds : Finish(p)

SpecRace == InitRace /\ [][NextRace]_vars

(***************************************************************************)
(* SpecLookup: one scan followed from the camera event to the result view, *)
(* with every answer of the remote and a storage that can reject writes.   *)
(* The user only navigates (MaxLookupTaps taps), and the scan falls into   *)
(* the last millisecond the clock counts.                                  *)
(***************************************************************************)
MaxLookupTaps == 2

InitLookup ==
  /\ Mounted(InitialStorages)
  /\ call = NoCall
  /\ now = MaxNow
  /\ tapsLeft = MaxLookupTaps
  /\ togglesLeft = 0
  /\ failsLeft = MaxWriteFails
  /\ opsLeft = 0

NextLookup ==
  \/ LoadFinish
  \/ Render
  \/ GoScan
  \/ Back
  \/ OpenResult
  \/ \E data \in Barcodes : Scan(1, data)
  \/ EnrichSkip(1)
  \/ EnrichStart(1)
  \/ FirstRequest(1)
  \/ \E out \in Outcomes : ResponseFound(1, out)
  \/ \E out \in Outcomes : ResponseThrows(1, out)
  \/ \E out \in Outcomes : ResponseNext(1, out)
  \/ \E out \in Outcomes : ResponseExhausted(1, out)
  \/ Finish(1)

SpecLookup == InitLookup /\ [][NextLookup]_vars

(***************************************************************************)
(* SpecStore: a component that uses the hook directly.  It calls add,      *)
(* update, toggleFavorite, remove and reload as the last render gave them  *)
(* to it, so each works on the history that render captured.               *)
(***************************************************************************)
StoreItems == {newItem("A", Str("A"), 1), newItem("B", Str("B"), 1)}

StoreIds == {"A", "B", "nope"}

StoreChanges ==
  {[lookupStatus |-> "found", pufaFlag |-> "high"], [name |-> Str("Renamed")]}

\* a history at the cap: HistoryCap scans without barcode data, newest first
FullHistory ==
  [i \in 1..HistoryCap |->
     newItem(ToString(1000 - i), Str(""), 1000 - i)]

CorruptStorage == [kind |-> "corrupt", items |-> <<>>]

StoreStorages == {NoStorage, CorruptStorage, Stored(FullHistory)}

\* How the promise of a store operation settles: persist catches the
\* rejection of setItem and logs it (src/App.tsx:620-624), so the operation
\* resolves whether the write was rejected or not.
settle(writeRejected) ==
  IF writeRejected THEN "resolved" ELSE "resolved"

\* a call by the client: what it was given, what the store held when it was
\* issued, what it returned and how it settled
called(fn, args, out) ==
  /\ opsLeft > 0
  /\ opsLeft' = opsLeft - 1
  /\ call' = [fn |-> fn, args |-> args, done |-> TRUE, out |-> out,
               before |-> history, settled |-> settle(failsLeft' < failsLeft)]
  /\ UNCHANGED <<tapsLeft, togglesLeft>>

\* add (src/App.tsx:627-630)
StoreAdd(item) ==
  /\ persist(addItems(rHistory, item))
  /\ called("add", <<item>>, U)
  /\ UNCHANGED <<loadVars, renderVars, result, stack, scanned, procs, now>>

\* toggleFavorite (src/App.tsx:632-635)
StoreToggle(id) ==
  /\ persist(toggleItems(rHistory, id))
  /\ called("toggleFavorite", <<id>>, U)
  /\ UNCHANGED <<loadVars, renderVars, result, stack, scanned, procs, now>>

\* remove (src/App.tsx:637-640)
StoreRemove(id) ==
  /\ persist(removeItems(rHistory, id))
  /\ called("remove", <<id>>, U)
  /\ UNCHANGED <<loadVars, renderVars, result, stack, scanned, procs, now>>

\* update (src/App.tsx:642-646)
StoreUpdate(id, changes) ==
  /\ persist(updateItems(rHistory, id, changes))
  /\ called("update", <<id, changes>>, find(updateItems(rHistory, id, changes), id))
  /\ UNCHANGED <<loadVars, renderVars, result, stack, scanned, procs, now>>

\* reload = load (src/App.tsx:606-609, 650): setLoading(true), getItem
Reload ==
  /\ loadPc = "idle"
  /\ loading' = TRUE
  /\ loadPc' = "resolve"
  /\ loadRaw' \in getItem
  /\ UNCHANGED <<history, storage, failsLeft, renderVars, result, stack,
                 scanned, procs, now>>
  /\ called("reload", <<>>, U)

InitStore ==
  /\ Mounted(StoreStorages)
  /\ call = NoCall
  /\ now = 1
  /\ tapsLeft = 0
  /\ togglesLeft = 0
  /\ failsLeft = MaxWriteFails
  /\ opsLeft = MaxStoreOps

NextStore ==
  \/ LoadFinish
  \/ Render
  \/ \E item \in StoreItems : StoreAdd(item)
  \/ \E id \in StoreIds : StoreToggle(id)
  \/ \E id \in StoreIds : StoreRemove(id)
  \/ \E id \in StoreIds, changes \in StoreChanges : StoreUpdate(id, changes)
  \/ Reload

SpecStore == InitStore /\ [][NextStore]_vars

(***************************************************************************)
(* SpecPufa: analyzePufa on its own, over ingredient texts and fat values. *)
(***************************************************************************)
PufaTexts ==
  {U, Str(""), Str("water, sugar"),
   Str("contains soybean oil"), Str("Contains SOYBEAN Oil"),
   Str("Mixed Vegetable Oils, CANOLA oil"),
   Str("soy oil; corn oil"),
   Str("rice bran oil, grapeseed oil, cottonseed oil, safflower oil, rapeseed oil"),
   Str("sunflower oil and olive oil"),
   Str("Extra virgin Olive Oil"), Str("Butter, salt"), Str("avocado oil")}

MaxFat == 12

PufaFats == {U, Null, Str("12"), Num(-1)} \cup {Num(n) : n \in 0..MaxFat}

InitPufa ==
  /\ Mounted({NoStorage})
  /\ now = 1
  /\ tapsLeft = 0
  /\ togglesLeft = 0
  /\ failsLeft = 0
  /\ opsLeft = 0
  /\ \E t \in PufaTexts, v \in PufaFats :
       call = [fn |-> "analyzePufa", args |-> <<t, v>>, done |-> FALSE,
               out |-> U, before |-> <<>>, settled |-> "resolved"]

Analyze ==
  /\ call.fn = "analyzePufa"
  /\ ~call.done
  /\ call' = [call EXCEPT !.done = TRUE,
                          !.out = analyzePufa(call.args[1], call.args[2])]
  /\ UNCHANGED <<history, storage, failsLeft, loadVars, renderVars, result,
                 stack, scanned, procs, tapsLeft, togglesLeft, opsLeft, now>>

NextPufa == Analyze

SpecPufa == InitPufa /\ [][NextPufa]_vars

(***************************************************************************)
(* SpecParse: ep.parser(json) on its own, over response bodies built from  *)
(* the fields the parsers read: status, product, product_name, the two     *)
(* ingredient texts and nutriments.                                        *)
(***************************************************************************)
\* marks a key the body does not have
Absent == [type |-> "absent", num |-> 0, str |-> "", obj |-> EmptyObj]

\* the object with the keys of f that are not marked absent
ObjOf(f) == Obj([k \in {x \in DOMAIN f : f[x] # Absent} |-> f[k]])

ParseStatuses == {Absent, Num(0), Num(1), Num(2), Str("1")}

ParseNames == {Absent, Str(""), Str("Test Oil")}

ParseTexts == {Absent, Str("contains soybean oil")}

ParseNutriments ==
  {Absent, Obj(EmptyObj),
   Obj([k \in {"nova-group"} |-> Num(4)]),
   Obj([k \in {"fat_100g"} |-> Num(3)]),
   Obj([k \in {"fat_unit"} |-> Str("g")]),
   Obj([k \in {"fat_100g"} |-> Str("3")]),
   Obj([k \in {"energy-kj_100g"} |-> Num(523)]),
   nutrimentsOf(Num(12))}

ParseProducts ==
  {Absent, Null}
    \cup {ObjOf([product_name |-> n, ingredients_text |-> t,
                 ingredients_text_en |-> Absent, nutriments |-> nu]) :
            n \in ParseNames, t \in ParseTexts, nu \in ParseNutriments}
    \cup {ObjOf([product_name |-> Absent, ingredients_text |-> Absent,
                 ingredients_text_en |-> Str("olive oil"), nutriments |-> Absent])}

ParseBodies ==
  {U, Null, Str("<html>")}
    \cup {ObjOf([status |-> st, product |-> pr]) :
            st \in ParseStatuses, pr \in ParseProducts}

InitParse ==
  /\ Mounted({NoStorage})
  /\ now = 1
  /\ tapsLeft = 0
  /\ togglesLeft = 0
  /\ failsLeft = 0
  /\ opsLeft = 0
  /\ \E ep \in 1..Len(endpoints), json \in ParseBodies :
       call = [fn |-> "parse", args |-> <<ep, json>>, done |-> FALSE,
               out |-> U, before |-> <<>>, settled |-> "resolved"]

\* const parsed = ep.parser(json) (src/App.tsx:688)
Parse ==
  /\ call.fn = "parse"
  /\ ~call.done
  /\ call' = [call EXCEPT !.done = TRUE,
                          !.out = parse(endpoints[call.args[1]], call.args[2])]
  /\ UNCHANGED <<history, storage, failsLeft, loadVars, renderVars, result,
                 stack, scanned, procs, tapsLeft, togglesLeft, opsLeft, now>>

NextParse == Parse

SpecParse == InitParse /\ [][NextParse]_vars

(***************************************************************************)
(* Properties.                                                             *)
(***************************************************************************)
Analyzed == call.fn = "analyzePufa" /\ call.done

\* the text analyzePufa was given, absent text counting as empty
TextArg == IF call.args[1].type = "string" THEN call.args[1].str ELSE ""

FatArg == call.args[2]

\* a seed-oil keyword occurs in the text, whatever the case of its letters
KeywordOccurs ==
  \E k \in {"canola oil", "rapeseed oil", "soybean oil", "soy oil", "corn oil",
            "sunflower oil", "safflower oil", "cottonseed oil", "grapeseed oil",
            "rice bran oil", "vegetable oil", "mixed vegetable oils"} :
    includes(toLowerCase(TextArg), k)

\* C9: for every ingredient text and every numeric polyunsaturated-fat value
\* v, analyzePufa returns high when v >= 10, medium when 4 <= v < 10, high
\* when v < 4 and a seed-oil keyword occurs in the text, low when v < 4 and
\* none occurs; so v = 4 gives medium and v = 10 gives high.
C9_NumericTiers ==
  (Analyzed /\ FatArg.type = "number") =>
    LET v == FatArg.num
    IN /\ ~call.out.threw
       /\ v >= 10 => call.out.flag = "high"
       /\ (4 <= v /\ v < 10) => call.out.flag = "medium"
       /\ (v < 4 /\ KeywordOccurs) => call.out.flag = "high"
       /\ (v < 4 /\ ~KeywordOccurs) => call.out.flag = "low"

\* C9 witness: the boundary values and both cases below 4 have been analyzed
C9_Witness_Boundary4 ==
  Analyzed /\ FatArg = Num(4) /\ KeywordOccurs /\ call.out.flag = "medium"

ClaimKeywords ==
  << "canola oil", "rapeseed oil", "soybean oil", "soy oil", "corn oil",
     "sunflower oil", "safflower oil", "cottonseed oil", "grapeseed oil",
     "rice bran oil", "vegetable oil", "mixed vegetable oils" >>

\* the positions of the claim's keyword list whose keyword occurs in s
OccurringAt(s) == {i \in 1..Len(ClaimKeywords) : includes(s, ClaimKeywords[i])}

\* seq lists exactly the keywords at the positions in P, in list order
ListsInOrder(seq, P) ==
  /\ Len(seq) = Cardinality(P)
  /\ \A n \in 1..Len(seq) :
       \E i \in P : /\ seq[n] = ClaimKeywords[i]
                    /\ Cardinality({j \in P : j < i}) = n - 1

\* C10: for every ingredient text (absent text counts as empty) with no
\* numeric fat value, analyzePufa returns as matched terms exactly the
\* keywords of the fixed 12-keyword list that occur in the lower-cased text,
\* in the list's order, and returns tier high if that list is non-empty,
\* otherwise low if the text contains "olive oil", "butter" or "avocado oil",
\* otherwise unknown.
C10_KeywordTiers ==
  (Analyzed /\ FatArg.type # "number") =>
    LET lower == toLowerCase(TextArg)
        P == OccurringAt(lower)
    IN /\ ~call.out.threw
       /\ ListsInOrder(call.out.matchedSeedOils, P)
       /\ call.out.flag =
            IF P # {} THEN "high"
            ELSE IF \/ includes(lower, "olive oil")
                    \/ includes(lower, "butter")
                    \/ includes(lower, "avocado oil")
                 THEN "low"
            ELSE "unknown"

\* C10 witness: a text with capitals that holds three keywords, one of them
\* inside another, and no fat value
C10_Witness_TwoKeywords ==
  /\ Analyzed /\ FatArg = U
  /\ call.args[1] = Str("Mixed Vegetable Oils, CANOLA oil")
  /\ call.out.matchedSeedOils = <<"canola oil", "vegetable oil", "mixed vegetable oils">>
  /\ call.out.flag = "high"

Last(seq) == seq[Len(seq)]

\* the scan handler p returns in this step
Finishes(p) == procs[p].pc # "done" /\ procs'[p].pc = "done"

\* the last status the attempt of p passed to update
LastWrite(p) ==
  IF procs[p].statusWrites = <<>> THEN "none" ELSE Last(procs[p].statusWrites)

Positions(h, id) == {i \in 1..Len(h) : h[i].id = id}

\* C1: when onScanned runs for a barcode and an endpoint returns a usable
\* product, then once the scan handler has finished the store holds a record
\* with that barcode as id whose lookupStatus is found, whose riskTier and
\* matchedSeedOilTerms are the classifier's output for the returned
\* ingredients and fat value, whose polyunsaturatedFatPer100g is the returned
\* value and whose lookupSource is the answering endpoint's id; the record
\* handed to the result view is that same record.
C1_EndToEndSuccess ==
  [][\A p \in ScanIds :
       (Finishes(p) /\ LastWrite(p) = "found") =>
         LET pr == procs[p]
             fat == Get(pr.productData, "polyFatPer100g")
             analysis == analysisOf(pr.productData)
         IN \E i \in 1..Len(history') :
              /\ history'[i].id = pr.item.id
              /\ Str(history'[i].id) = pr.item.barcodeData
              /\ history'[i].lookupStatus = "found"
              /\ history'[i].pufaFlag = analysis.flag
              /\ history'[i].matchedSeedOils = Array(analysis.matchedSeedOils)
              /\ fat.type = "number" => history'[i].polyunsaturatedFatPer100g = fat
              /\ history'[i].lookupSource = pr.sourceUsed
              /\ result' = Obj(history'[i])]_vars

\* what a call of a client of the hook makes of a record sequence
Applied(h, c) ==
  CASE c.fn = "add" -> addItems(h, c.args[1])
    [] c.fn = "toggleFavorite" -> toggleItems(h, c.args[1])
    [] c.fn = "remove" -> removeItems(h, c.args[1])
    [] c.fn = "update" -> updateItems(h, c.args[1], c.args[2])
    [] OTHER -> h

Mutates == opsLeft' < opsLeft /\ call'.fn # "reload"

\* C2: no lost updates: for every interleaving of add, update, toggleFavorite
\* and remove calls issued in one process, including calls issued from
\* callbacks created before an earlier call's state change was rendered, the
\* record sequence reflects every one of them: each call leaves the sequence
\* that results from applying it to the sequence all earlier calls have left.
C2_NoLostUpdates ==
  [][Mutates => history' = Applied(history, call')]_vars

\* C3: the record sequence never has more than 200 entries; an add performed
\* when the sequence already holds 200 entries puts the new record first and
\* drops exactly the one oldest (last) record, keeping the order of the rest.
C3_CapAndEviction ==
  [][/\ Len(history') <= 200
     /\ (Mutates /\ call'.fn = "add" /\ Len(history) = 200) =>
          history' = <<call'.args[1]>> \o SubSeq(history, 1, 199)]_vars

\* C4: in every reachable state no two records of the store have the same
\* id; in particular, when onScanned has been invoked twice for the same
\* barcode and both runs have finished, the store holds exactly one record
\* whose id is that barcode.
C4_UniqueIds ==
  /\ \A i, j \in 1..Len(history) : i # j => history[i].id # history[j].id
  /\ \A p, q \in ScanIds :
       (/\ p # q
        /\ procs[p].pc = "done" /\ procs[q].pc = "done"
        /\ procs[p].item.id = procs[q].item.id
        /\ Truthy(procs[p].item.barcodeData)) =>
         Cardinality(Positions(history, procs[p].item.id)) = 1

TerminalStatus == {"found", "not_found", "error"}

\* the status writes an attempt has made, by the point the handler is at
StatusLogOk(p) ==
  LET w == procs[p].statusWrites
      started == Truthy(procs[p].item.barcodeData)
  IN CASE procs[p].pc \in {"idle", "add"} -> w = <<>>
       [] procs[p].pc \in {"pending", "fetch"} -> w = <<"pending">>
       [] procs[p].pc = "done" /\ ~started -> w = <<>>
       [] OTHER -> Len(w) = 2 /\ w[1] = "pending" /\ w[2] \in TerminalStatus

\* a status write of p lands on every record of the store that has its id
StatusWriteLands(p) ==
  procs'[p].statusWrites # procs[p].statusWrites =>
    /\ procs'[p].statusWrites \in
         {Append(procs[p].statusWrites, st) : st \in {"pending"} \cup TerminalStatus}
    /\ \A i \in Positions(history', procs[p].item.id) :
         history'[i].lookupStatus = Last(procs'[p].statusWrites)

InFlight(p) == procs[p].pc \in {"pending", "fetch", "final"}

\* C6: at any moment at most one enrichment attempt is in flight for a given
\* record id: a second scan of the same barcode does not start a second
\* attempt that writes the same record's fields concurrently with the first.
C6_OneAttemptPerId ==
  \A p, q \in ScanIds :
    (p # q /\ InFlight(p) /\ InFlight(q)) => procs[p].item.id # procs[q].item.id

ConfiguredOrder == <<"OFF v2 world", "OFF v2 us", "OFF v0 world", "OFF v0 us">>

RequestsInOrder(p) ==
  /\ Len(procs[p].requests) <= Len(ConfiguredOrder)
  /\ \A i \in 1..Len(procs[p].requests) : procs[p].requests[i] = ConfiguredOrder[i]
  /\ LastWrite(p) = "not_found" => procs[p].requests = ConfiguredOrder

\* the recorded source is the id of the endpoint requested last
SourceIsAnswering(p) ==
  Truthy(procs[p].productData) =>
    /\ procs[p].requests # <<>>
    /\ procs[p].sourceUsed = Str(Last(procs[p].requests))

\* once an answer has parsed to a product no further request is issued, and
\* the write that follows puts that endpoint's id into the record
StopsAtFirstUsable(p) ==
  /\ Truthy(procs[p].productData) => procs'[p].requests = procs[p].requests
  /\ (LastWrite(p) # "found" /\ procs'[p].statusWrites = Append(procs[p].statusWrites, "found")) =>
       /\ Truthy(procs'[p].productData)
       /\ \A i \in Positions(history', procs[p].item.id) :
            history'[i].lookupSource = Str(Last(procs[p].requests))

\* C7: a lookup requests the endpoints strictly in the configured order (OFF
\* v2 world, OFF v2 us, OFF v0 world, OFF v0 us), issues no request after the
\* first endpoint whose response parses to usable data, and records that
\* endpoint's source id as lookupSource; if endpoint 1 times out and endpoint
\* 2 returns valid data, the recorded source is endpoint 2's id.
C7_EndpointOrder ==
  /\ [](\A p \in ScanIds : RequestsInOrder(p) /\ SourceIsAnswering(p))
  /\ [][\A p \in ScanIds : StopsAtFirstUsable(p)]_vars

\* C7 witness: endpoint 1 gave nothing, endpoint 2 gave a product, and the
\* store's record carries endpoint 2's id
C7_Witness_SecondEndpoint ==
  \E p \in ScanIds :
    /\ procs[p].pc = "done"
    /\ procs[p].requests = <<"OFF v2 world", "OFF v2 us">>
    /\ procs[p].sourceUsed = Str("OFF v2 us")
    /\ \E i \in Positions(history, procs[p].item.id) :
         history[i].lookupSource = Str("OFF v2 us")

\* C8: when every endpoint times out, fails in transport, returns malformed
\* JSON or returns no usable data, the record created by the scan ends in
\* the store with lookupStatus not_found and its riskTier still unknown, and
\* none of name, ingredients, polyunsaturatedFatPer100g, matchedSeedOilTerms,
\* nutrients or lookupSource has been written.
C8_AllEndpointsFail ==
  [][\A p \in ScanIds :
       (Finishes(p) /\ LastWrite(p) = "not_found") =>
         \E i \in Positions(history', procs[p].item.id) :
           /\ history'[i].scannedAt = procs[p].item.scannedAt
           /\ history'[i].lookupStatus = "not_found"
           /\ history'[i].pufaFlag = "unknown"
           /\ history'[i].name = U
           /\ history'[i].ingredients = U
           /\ history'[i].polyunsaturatedFatPer100g = U
           /\ history'[i].matchedSeedOils = NoArray
           /\ history'[i].nutriments = U
           /\ history'[i].lookupSource = U]_vars

\* a client of the hook calls update in this step
Updates == Mutates /\ call'.fn = "update"

\* C11: update(id, changes) with an id that no record has returns no record
\* and leaves the record sequence exactly as it was; with an id that a record
\* has, it changes in that record only the fields supplied in changes, leaves
\* that record's other fields untouched, and leaves every record with a
\* different id and the order of the sequence untouched.
C11_UpdateFrame ==
  [][Updates =>
       LET id == call'.args[1]
           changes == call'.args[2]
       IN IF Positions(history, id) = {}
          THEN call'.out = U /\ history' = history
          ELSE /\ Len(history') = Len(history)
               /\ \A i \in 1..Len(history) :
                    \A f \in DOMAIN history[i] :
                      history'[i][f] =
                        IF history[i].id = id /\ f \in DOMAIN changes
                        THEN changes[f] ELSE history[i][f]]_vars

\* a client of the hook calls toggleFavorite(id) in this step
Toggles(id) == Mutates /\ call'.fn = "toggleFavorite" /\ call'.args = <<id>>

\* the step is the second of two toggleFavorite(id) calls in a row, with
\* nothing but renders between them
SecondToggle(id) ==
  /\ Toggles(id)
  /\ call.fn = "toggleFavorite" /\ call.args = <<id>>
  /\ history = toggleItems(call.before, id)

\* h2 is h1 with every isFavorite at its old truth value (a favorite flag
\* that was absent may have become false) and nothing else changed
Restored(h1, h2) ==
  /\ Len(h2) = Len(h1)
  /\ \A i \in 1..Len(h1) :
       \A f \in DOMAIN h1[i] :
         IF f = "isFavorite"
         THEN Truthy(h2[i][f]) = Truthy(h1[i][f])
         ELSE h2[i][f] = h1[i][f]

\* C12: for every record id in the store, two toggleFavorite calls on that id
\* leave the record's isFavorite equal to its value before the first call
\* (also when the second call is issued before the first call's state change
\* has been rendered), and change no other field or record; toggleFavorite
\* on an id not in the store changes nothing.
C12_ToggleTwice ==
  [][\A id \in StoreIds :
       /\ (SecondToggle(id) /\ Positions(call.before, id) # {}) =>
            Restored(call.before, history')
       /\ (Toggles(id) /\ Positions(history, id) = {}) =>
            history' = history]_vars

\* the setItem of the operation called in this step is rejected
WriteRejected == Mutates /\ failsLeft' < failsLeft

\* C13: when the durable write of a mutating store operation (add, update,
\* toggleFavorite, remove) fails, the failure is reported to the caller of
\* that operation rather than swallowed, and the in-memory record sequence
\* holds the operation's result.
C13_WriteFailureReported ==
  [][WriteRejected =>
       /\ call'.settled = "rejected"
       /\ history' = Applied(rHistory, call')]_vars

\* load resumes after getItem has settled and runs to its end in this step
LoadEnds == loadPc = "resolve" /\ loadPc' = "idle"

\* what getItem came to cannot be read, or does not parse
Unreadable(raw) == raw.kind \in {"rejected", "corrupt"}

\* C14: load (on mount and when called again as reload) yields an empty
\* record sequence whenever the persisted value is unreadable or not valid
\* JSON, never raises to its caller, and always ends with loading set to
\* false.
C14_LoadFailsSoft ==
  [][LoadEnds =>
       /\ loading' = FALSE
       /\ Unreadable(loadRaw) => history' = <<>>]_vars

Parsed == call.fn = "parse" /\ call.done

\* the product object of the body a parser was given
ProductArg == Get(call.args[2], "product")

\* the mapped nutrient model has at least one nutrient with a value or unit
HasNutrient(nutriments) ==
  /\ nutriments.type = "object"
  /\ \E k \in DOMAIN nutriments.obj : nutriments.obj[k] # U

\* C15: parseOffV2 and parseOffV0 return a parsed product only if at least
\* one of these holds: the product name is present, the ingredient text is
\* present, or the mapped nutrient model has at least one nutrient with a
\* value or unit; a product object with no name, no ingredient text and a
\* nutriments object carrying none of the known nutrient keys is reported as
\* no usable data.
C15_UsableData ==
  Parsed =>
    (Truthy(call.out) =>
       \/ Truthy(Get(ProductArg, "product_name"))
       \/ Truthy(Get(ProductArg, "ingredients_text_en"))
       \/ Truthy(Get(ProductArg, "ingredients_text"))
       \/ HasNutrient(mapBasicNutriments(Get(ProductArg, "nutriments"))))

\* the attempt of p ended in a failure of the lookup
FailedLookup(p) == LastWrite(p) \in {"not_found", "error"}

\* C16: for every outcome of the network calls and parsers of one enrichment
\* attempt (timeout, transport error, malformed body, not found),
\* enrichItemWithOpenFoodFacts and the scan handler complete without
\* raising: the failure is visible to the presentation layer only as the
\* record's lookupStatus being not_found or error, so when the handler
\* finishes after a failed lookup the result view holds the scan's record
\* with the status the attempt wrote.
C16_FailureAsStatus ==
  [][\A p \in ScanIds :
       (Finishes(p) /\ FailedLookup(p)) =>
         /\ stack' = "Result"
         /\ result'.type = "object"
         /\ result'.obj.id = procs[p].item.id
         /\ result'.obj.lookupStatus = LastWrite(p)]_vars

\* C17: every record that a scan creates with lookupStatus pending has
\* lookupStatus found, not_found or error in the store once the scan handler
\* has finished: no record stays pending after its scan handler has
\* finished.
C17_NoRecordStaysPending ==
  [][\A p \in ScanIds :
       Finishes(p) =>
         /\ Positions(history', procs[p].item.id) # {}
         /\ \A i \in Positions(history', procs[p].item.id) :
              history'[i].lookupStatus \in TerminalStatus]_vars

\* the record update and the views find for an id: the first with that id
Record(h, id) == h[CHOOSE i \in Positions(h, id) : \A j \in Positions(h, id) : i <= j]

\* an attempt for id writes the classification of a product it found
Classifies(id) ==
  \E p \in ScanIds :
    /\ procs[p].item.id = id
    /\ procs'[p].statusWrites = Append(procs[p].statusWrites, "found")

\* C18: riskTier of a record is unknown until an enrichment attempt writes
\* the classifier's result; after that, no operation (add of another scan,
\* update to pending, not_found or error, toggleFavorite, remove of another
\* id) resets it to unknown: it changes only when a later attempt for that
\* id finds a product and writes a new classification.
C18_RiskTierKept ==
  [][\A id \in {history[i].id : i \in 1..Len(history)} :
       (/\ Record(history, id).pufaFlag # "unknown"
        /\ Positions(history', id) # {}
        /\ ~Classifies(id)) =>
         Record(history', id).pufaFlag = Record(history, id).pufaFlag]_vars

\* C19: whenever an enrichment update is applied to the record whose id
\* equals the id of the record currently shown in the result view, the
\* result view's record is replaced by the refreshed record, so that after
\* the attempt ends the shown record equals the store's record with that id.
C19_ResultRefreshed ==
  [][\A p \in ScanIds :
       (Finishes(p) /\ Truthy(procs[p].ret)) =>
         /\ Positions(history', procs[p].item.id) # {}
         /\ result' = Obj(Record(history', procs[p].item.id))]_vars

\* a store operation of the scan handler p has been called and the handler
\* has not gone on yet: add, or one of the updates
Returning(p) == procs[p].pc \in {"add", "pending", "final"}

\* no setItem has been rejected so far
AllWritesAccepted == failsLeft = MaxWriteFails

\* C20: after every mutating store operation whose durable write succeeds
\* has returned, the persisted JSON sequence equals the in-memory record
\* sequence, also when operations overlap: from the operation's write to
\* the return to its caller, the value last written to storage is the value
\* last set in memory.
C20_PersistedEqualsMemory ==
  \A p \in ScanIds :
    (Returning(p) /\ AllWritesAccepted) => storage = Stored(stringify(history))

\* no endpoint occurs twice among the requests of the lookup of p
NoRepeat(p) ==
  \A i, j \in 1..Len(procs[p].requests) :
    i # j => procs[p].requests[i] # procs[p].requests[j]

\* a request is issued only for the endpoint after the one tried last, and a
\* lookup waiting for an answer leaves the loop only with a product or after
\* the last endpoint
NextEndpointOnly(p) ==
  /\ procs'[p].requests # procs[p].requests =>
       /\ Len(procs[p].requests) < Len(endpoints)
       /\ procs'[p].requests =
            Append(procs[p].requests, endpoints[Len(procs[p].requests) + 1].source)
       /\ ~Truthy(procs[p].productData)
  /\ (procs[p].pc = "fetch" /\ procs'[p].pc # "fetch") =>
       \/ Truthy(procs'[p].productData)
       \/ Len(procs[p].requests) = Len(endpoints)

\* C21: within one lookup each endpoint is requested at most once: when a
\* request times out, fails in transport, returns a body that is not JSON,
\* or parses to no usable data, the lookup issues the request for the next
\* endpoint in the list and never repeats a request to an endpoint already
\* tried.
C21_NoRepeatedRequest ==
  /\ [](\A p \in ScanIds : NoRepeat(p))
  /\ [][\A p \in ScanIds : NextEndpointOnly(p)]_vars

\* C21 witness: a lookup has ended after one request to each of the four
\* endpoints
C21_Witness_AllFour ==
  \E p \in ScanIds :
    /\ procs[p].pc = "done"
    /\ Len(procs[p].requests) = Len(endpoints)
    /\ NoRepeat(p)
    /\ LastWrite(p) = "not_found"

\* the parser of the endpoint a parse call was made for, and the status
\* field of the body it was given
ParserArg == endpoints[call.args[1]].parser

StatusArg == Get(call.args[2], "status")

\* the product object names the product or lists its ingredients
Described(product) ==
  \/ Truthy(Get(product, "product_name"))
  \/ Truthy(Get(product, "ingredients_text_en"))
  \/ Truthy(Get(product, "ingredients_text"))

\* C22: a response whose status field is 0, and a response with no product
\* object, never yields a usable result from either parser, whatever else
\* the body contains; parseOffV0 rejects every response whose status is not
\* exactly 1, while parseOffV2 accepts a response with a product object and a
\* missing or non-zero status: a product that is named or lists ingredients
\* is returned whatever that status is.
C22_StatusGates ==
  Parsed =>
    /\ (StatusArg = Num(0) \/ ~Truthy(ProductArg)) => call.out = U
    /\ (ParserArg = "parseOffV0" /\ StatusArg # Num(1)) => call.out = U
    /\ (/\ ParserArg = "parseOffV2"
        /\ StatusArg # Num(0)
        /\ Truthy(ProductArg)
        /\ Described(ProductArg)) => Truthy(call.out)

\* C22 witness: parseOffV2 returned a product for a body without a status
\* field
C22_Witness_V2NoStatus ==
  /\ Parsed
  /\ ParserArg = "parseOffV2"
  /\ StatusArg = U
  /\ Truthy(ProductArg)
  /\ Truthy(call.out)

\* the attempt of p writes to the store in this step (662, 698, 705, 724)
AttemptWrites(p) == procs'[p].statusWrites # procs[p].statusWrites

\* h2 holds the records of h1 in the same places, each record with an id
\* other than id unchanged
OnlyChanged(h1, h2, id) ==
  /\ Len(h2) = Len(h1)
  /\ \A i \in 1..Len(h1) :
       /\ h2[i].id = h1[i].id
       /\ h1[i].id # id => h2[i] = h1[i]

\* C23: an enrichment attempt for id X changes only the record with id X:
\* every record with a different id, and the presence and order of all
\* records, are after each of the attempt's store writes exactly what the
\* store held immediately before that write, including records added,
\* removed or favorited while the attempt's lookup was waiting on the
\* network.
C23_AttemptFrame ==
  [][\A p \in ScanIds :
       AttemptWrites(p) => OnlyChanged(history, history', procs[p].item.id)]_vars

\* the scan of p had an empty barcode value
EmptyScan(p) == procs[p].pc # "idle" /\ ~Truthy(procs[p].item.barcodeData)

\* the record of p as onScanned created it, its id made from a clock reading
\* not later than scannedAt
CreatedWithTimeId(p) ==
  \E t \in 0..procs[p].item.scannedAt :
    procs[p].item = newItem(ToString(t), Str(""), procs[p].item.scannedAt)

\* the enrichment attempt of p runs in this step, up to goResult
Attempts(p) == procs[p].pc = "add" /\ procs'[p].pc = "done"

\* C24: when the scanned barcode value is empty, the record is created with
\* a timestamp-based id and the enrichment attempt issues no network request
\* and performs no store write: the record sequence after the attempt equals
\* the sequence right after the add, and the result view is given the record
\* exactly as it was created.
C24_EmptyBarcode ==
  /\ [](\A p \in ScanIds :
          EmptyScan(p) =>
            /\ CreatedWithTimeId(p)
            /\ procs[p].requests = <<>>
            /\ procs[p].statusWrites = <<>>)
  /\ [][\A p \in ScanIds :
          (EmptyScan(p) /\ Attempts(p)) =>
            /\ history' = history
            /\ storage' = storage
            /\ result' = Obj(procs[p].item)
            /\ stack' = "Result"]_vars

\* C24 witness: a scan with an empty barcode has finished, its record is in
\* the store and is the one shown
C24_Witness_EmptyScanDone ==
  \E p \in ScanIds :
    /\ EmptyScan(p)
    /\ procs[p].pc = "done"
    /\ result = Obj(procs[p].item)
    /\ Len(history) > 0
    /\ history[1] = procs[p].item

\* the last call was a mutating operation, and it completed after the load
\* now reading storage had started (a reload replaces the call record)
CompletedDuringLoad ==
  /\ loadPc = "resolve"
  /\ call.done
  /\ call.fn \in {"add", "update", "toggleFavorite", "remove"}

\* the id a mutating call was about
IdOf(c) == IF c.fn = "add" THEN c.args[1].id ELSE c.args[1]

\* the records of h with that id, in order
RecordsOf(h, id) == SelectSeq(h, LAMBDA it : it.id = id)

\* C25: a mutating store operation (add, update, toggleFavorite, remove) that
\* completes while a load is still reading storage is not lost: after the
\* load finishes, the in-memory record sequence still contains the effect of
\* that operation, that is, the records with the operation's id are the ones
\* the operation left.
C25_LoadKeepsOperation ==
  [][(LoadEnds /\ CompletedDuringLoad) =>
       RecordsOf(history', IdOf(call)) = RecordsOf(history, IdOf(call))]_vars

====
